---- MODULE Spec2Model ----
(***************************************************************************)
(* Shot target inference of the curling accuracy analyser                  *)
(* (enhanced_accuracy_processor.py): the snapshot differ                   *)
(* (_find_thrown_stone, _find_removed_stones), the target inference engine *)
(* (infer_target and its per-shot-type heuristics), the metric calculator  *)
(* (calculate_accuracy_metrics) and process_shot_accuracy from the point   *)
(* where the shot row and its two snapshots have been read.                *)
(*                                                                         *)
(* Coordinates are integers counting half-millimetres (2000 units per      *)
(* metre), so that every position recorded to the millimetre is an even    *)
(* integer and the midpoint (a + b) / 2 of two recorded positions is       *)
(* exact.  A confidence is kept in tenths (0.3 is 3), an angle in          *)
(* micro-degrees.  A distance is kept and compared as its square: sqrt is  *)
(* monotone, and sqrt(v * v) = v in IEEE arithmetic, so                    *)
(* sqrt(x^2 + y^2) <= r is x^2 + y^2 <= r^2 on these values.               *)
(*                                                                         *)
(* Each call of a function is one action: from a state that holds the      *)
(* inputs (call = "none") to a state that also holds the function's name   *)
(* (call) and what it returned (ret).  The metric calculator is called     *)
(* on the two positions of metric_args; its second half, the two           *)
(* categorisation loops and the composite, is also a step of its own on    *)
(* the two error values of errors.                                         *)
(*                                                                         *)
(* The database is the three tables the batch operations read and write:   *)
(* shots (rows in id order), stone_positions and shot_accuracy_metrics     *)
(* (rows in insertion order).  process_shot_accuracy(shot_id) reads its    *)
(* shot row and snapshots from them into shot, pre_shot_stones and         *)
(* post_shot_stones.  An access to the database can raise: failures names  *)
(* the shots for which reading (processing) and writing (inserting) do.    *)
(***************************************************************************)
EXTENDS Integers, Sequences, FiniteSets

VARIABLES shot, pre_shot_stones, post_shot_stones, metric_args, errors, call, ret,
          shots, stone_positions, shot_accuracy_metrics, failures, runs

\* The tables of the database, the shots on which an access to it raises, and
\* the number of batch runs so far.
database == <<shots, stone_positions, shot_accuracy_metrics, failures, runs>>

vars == <<shot, pre_shot_stones, post_shot_stones, metric_args, errors, call, ret, database>>

(* ------------------------------ bounds -------------------------------- *)

\* Most positions in a post-shot snapshot (a pre-shot snapshot holds one less;
\* the Draw specification, with more places, draws one less of both).
MaxStones == 3

\* Most rows in the shots table.
MaxShots == 2

\* Most batch runs in a behaviour.
MaxRuns == 2

(* ------------------------- program constants -------------------------- *)

HOUSE_RADIUS == 3658
BUTTON_X == 0
BUTTON_Y == 0

Colors == {"red", "yellow"}

\* The keys of shot_type_targets.
shot_type_targets == {"Draw", "Guard", "Take-out", "Hit and Roll", "Freeze", "Tap", "Peel"}

\* Shot-type strings that are no key of shot_type_targets.
UnknownTypes == {"Double Take-out", "draw"}

(* ------------------------------ values -------------------------------- *)

\* Python's None.
None == [none |-> TRUE]

\* An exception leaving the function (IndexError of [][0], ValueError of argmin([])).
Raised(what) == [raised |-> what]

Stone(c, p) == [color |-> c, x |-> p[1], y |-> p[2]]

Target(tx, ty, conf) == [x |-> tx, y |-> ty, confidence |-> conf]

Min(S) == CHOOSE m \in S : \A n \in S : m <= n

\* [s for s in stones if s['color'] == color]
OfColor(stones, color) == SelectSeq(stones, LAMBDA s : s.color = color)

\* (a.x - b.x)**2 + (a.y - b.y)**2: the square of the distance the code compares.
Dist2(a, b) == (a.x - b.x) * (a.x - b.x) + (a.y - b.y) * (a.y - b.y)

\* np.argmin(distances) of a non-empty list: the first index of the least entry.
ArgMin(distances) ==
    Min({i \in 1..Len(distances) : \A j \in 1..Len(distances) : distances[i] <= distances[j]})

(* ------------------------ Position Snapshot Differ --------------------- *)

\* _find_thrown_stone with "post_count >= pre_count" for "post_count > pre_count".
find_thrown_stone_ge(shot_data, pre, post) ==
    LET shooting_color == shot_data.color
        pre_count == Len(OfColor(pre, shooting_color))
        post_count == Len(OfColor(post, shooting_color))
        pre_positions == {<<pre[i].x, pre[i].y>> : i \in {j \in 1..Len(pre) : pre[j].color = shooting_color}}
        hits == {i \in 1..Len(post) : /\ post[i].color = shooting_color
                                      /\ <<post[i].x, post[i].y>> \notin pre_positions}
    IN  IF post_count >= pre_count /\ hits # {} THEN post[Min(hits)] ELSE None

\* _find_thrown_stone with pre_positions built from both sides' positions.
find_thrown_stone_any_color(shot_data, pre, post) ==
    LET shooting_color == shot_data.color
        pre_count == Len(OfColor(pre, shooting_color))
        post_count == Len(OfColor(post, shooting_color))
        pre_positions == {<<pre[i].x, pre[i].y>> : i \in 1..Len(pre)}
        hits == {i \in 1..Len(post) : /\ post[i].color = shooting_color
                                      /\ <<post[i].x, post[i].y>> \notin pre_positions}
    IN  IF post_count > pre_count /\ hits # {} THEN post[Min(hits)] ELSE None

_find_thrown_stone(shot_data, pre, post) ==
    LET shooting_color == shot_data.color
        pre_count == Len(OfColor(pre, shooting_color))
        post_count == Len(OfColor(post, shooting_color))
        pre_positions == {<<pre[i].x, pre[i].y>> : i \in {j \in 1..Len(pre) : pre[j].color = shooting_color}}
        hits == {i \in 1..Len(post) : /\ post[i].color = shooting_color
                                      /\ <<post[i].x, post[i].y>> \notin pre_positions}
    IN  IF post_count > pre_count /\ hits # {} THEN post[Min(hits)] ELSE None

\* _find_removed_stones comparing (x, y) only, the label left out.
find_removed_stones_unlabelled(pre, post) ==
    LET post_positions == {<<post[i].x, post[i].y>> : i \in 1..Len(post)}
    IN  SelectSeq(pre, LAMBDA s : <<s.x, s.y>> \notin post_positions)

_find_removed_stones(pre, post) ==
    LET post_positions == {<<post[i].color, post[i].x, post[i].y>> : i \in 1..Len(post)}
    IN  SelectSeq(pre, LAMBDA s : <<s.color, s.x, s.y>> \notin post_positions)

(* ------------------------ Target Inference Engine ---------------------- *)

IsRaised(v) == "raised" \in DOMAIN v

\* seq[i] of Python (0-based i there, 1-based here): IndexError outside the list.
Item(seq, i) == IF i \in DOMAIN seq THEN seq[i] ELSE Raised("IndexError")

\* {'x': s['x'], 'y': s['y'], 'confidence': conf}; an exception raised while
\* s was computed leaves the function instead.
TargetAt(s, conf) == IF IsRaised(s) THEN s ELSE Target(s.x, s.y, conf)

\* [np.sqrt((s.x - t.x)**2 + (s.y - t.y)**2) for s in stones], squared.
Distances(stones, t) == [i \in DOMAIN stones |-> Dist2(stones[i], t)]

\* stones[np.argmin(distances)]; np.argmin raises ValueError on an empty list.
Closest(stones, t) ==
    IF Len(stones) = 0 THEN Raised("ValueError")
    ELSE Item(stones, ArgMin(Distances(stones, t)))

\* _infer_draw_target with "distance_to_button < HOUSE_RADIUS" for "<=".
infer_draw_target_strict(shot_data, pre, post) ==
    LET thrown_stone == _find_thrown_stone(shot_data, pre, post)
    IN  IF thrown_stone = None THEN Target(BUTTON_X, BUTTON_Y, 2)
        ELSE LET final_x == thrown_stone.x
                 final_y == thrown_stone.y
                 distance_to_button2 == final_x * final_x + final_y * final_y
             IN  IF distance_to_button2 < HOUSE_RADIUS * HOUSE_RADIUS
                 THEN Target(final_x, final_y, 8)
                 ELSE Target(BUTTON_X, BUTTON_Y, 6)

\* _infer_draw_target aiming every thrown stone at the button.
infer_draw_target_button_only(shot_data, pre, post) ==
    LET thrown_stone == _find_thrown_stone(shot_data, pre, post)
    IN  IF thrown_stone = None THEN Target(BUTTON_X, BUTTON_Y, 2)
        ELSE Target(BUTTON_X, BUTTON_Y, 6)

_infer_draw_target(shot_data, pre, post) ==
    LET thrown_stone == _find_thrown_stone(shot_data, pre, post)
    IN  IF thrown_stone = None THEN Target(BUTTON_X, BUTTON_Y, 2)
        ELSE LET final_x == thrown_stone.x
                 final_y == thrown_stone.y
                 distance_to_button2 == final_x * final_x + final_y * final_y
             IN  IF distance_to_button2 <= HOUSE_RADIUS * HOUSE_RADIUS
                 THEN Target(final_x, final_y, 8)
                 ELSE Target(BUTTON_X, BUTTON_Y, 6)

\* _infer_guard_target with "1.5 <= final_y < 6.0" for "1.5 <= final_y <= 6.0".
infer_guard_target_open_corridor(shot_data, pre, post) ==
    LET thrown_stone == _find_thrown_stone(shot_data, pre, post)
    IN  IF thrown_stone = None THEN Target(0, 7000, 3)
        ELSE LET final_x == thrown_stone.x
                 final_y == thrown_stone.y
             IN  IF 3000 <= final_y /\ final_y < 12000
                 THEN Target(final_x, final_y, 8)
                 ELSE Target(0, 7000, 5)

\* _infer_guard_target with the confidence 0.3 of the default for a thrown
\* stone outside the corridor.
infer_guard_target_low_outside(shot_data, pre, post) ==
    LET thrown_stone == _find_thrown_stone(shot_data, pre, post)
    IN  IF thrown_stone = None THEN Target(0, 7000, 3)
        ELSE LET final_x == thrown_stone.x
                 final_y == thrown_stone.y
             IN  IF 3000 <= final_y /\ final_y <= 12000
                 THEN Target(final_x, final_y, 8)
                 ELSE Target(0, 7000, 3)

_infer_guard_target(shot_data, pre, post) ==
    LET thrown_stone == _find_thrown_stone(shot_data, pre, post)
    IN  IF thrown_stone = None THEN Target(0, 7000, 3)
        ELSE LET final_x == thrown_stone.x
                 final_y == thrown_stone.y
             IN  IF 3000 <= final_y /\ final_y <= 12000
                 THEN Target(final_x, final_y, 8)
                 ELSE Target(0, 7000, 5)

\* _infer_takeout_target without the "if opponent_stones:" test before np.argmin.
infer_takeout_target_unguarded(shot_data, pre, post) ==
    LET removed_stones == _find_removed_stones(pre, post)
    IN  IF removed_stones # <<>>
        THEN TargetAt(Item(removed_stones, 1), 9)
        ELSE LET thrown_stone == _find_thrown_stone(shot_data, pre, post)
                 opponent_color == IF shot_data.color = "yellow" THEN "red" ELSE "yellow"
                 opponent_stones == OfColor(pre, opponent_color)
             IN  IF thrown_stone # None
                 THEN TargetAt(Closest(opponent_stones, thrown_stone), 7)
                 ELSE Target(BUTTON_X, BUTTON_Y, 3)

\* _infer_takeout_target with removed_stones[-1] for removed_stones[0].
infer_takeout_target_last_removed(shot_data, pre, post) ==
    LET removed_stones == _find_removed_stones(pre, post)
    IN  IF removed_stones # <<>>
        THEN TargetAt(Item(removed_stones, Len(removed_stones)), 9)
        ELSE LET thrown_stone == _find_thrown_stone(shot_data, pre, post)
                 opponent_color == IF shot_data.color = "yellow" THEN "red" ELSE "yellow"
                 opponent_stones == OfColor(pre, opponent_color)
             IN  IF thrown_stone # None /\ opponent_stones # <<>>
                 THEN TargetAt(Closest(opponent_stones, thrown_stone), 7)
                 ELSE Target(BUTTON_X, BUTTON_Y, 3)

\* _infer_takeout_target with the opponent stones taken from post_shot_stones.
infer_takeout_target_post_opponents(shot_data, pre, post) ==
    LET removed_stones == _find_removed_stones(pre, post)
    IN  IF removed_stones # <<>>
        THEN TargetAt(Item(removed_stones, 1), 9)
        ELSE LET thrown_stone == _find_thrown_stone(shot_data, pre, post)
                 opponent_color == IF shot_data.color = "yellow" THEN "red" ELSE "yellow"
                 opponent_stones == OfColor(post, opponent_color)
             IN  IF thrown_stone # None /\ opponent_stones # <<>>
                 THEN TargetAt(Closest(opponent_stones, thrown_stone), 7)
                 ELSE Target(BUTTON_X, BUTTON_Y, 3)

_infer_takeout_target(shot_data, pre, post) ==
    LET removed_stones == _find_removed_stones(pre, post)
    IN  IF removed_stones # <<>>
        THEN TargetAt(Item(removed_stones, 1), 9)
        ELSE LET thrown_stone == _find_thrown_stone(shot_data, pre, post)
                 opponent_color == IF shot_data.color = "yellow" THEN "red" ELSE "yellow"
                 opponent_stones == OfColor(pre, opponent_color)
             IN  IF thrown_stone # None /\ opponent_stones # <<>>
                 THEN TargetAt(Closest(opponent_stones, thrown_stone), 7)
                 ELSE Target(BUTTON_X, BUTTON_Y, 3)

\* _infer_hit_roll_target aiming at a removed stone when there is one, as
\* _infer_takeout_target does.
infer_hit_roll_target_at_removed(shot_data, pre, post) ==
    LET thrown_stone == _find_thrown_stone(shot_data, pre, post)
        removed_stones == _find_removed_stones(pre, post)
    IN  IF removed_stones # <<>>
        THEN TargetAt(Item(removed_stones, 1), 9)
        ELSE IF thrown_stone # None
             THEN Target(thrown_stone.x, thrown_stone.y, 7)
             ELSE Target(BUTTON_X, BUTTON_Y, 4)

\* _infer_hit_roll_target aiming every thrown stone at the button.
infer_hit_roll_target_button(shot_data, pre, post) ==
    LET thrown_stone == _find_thrown_stone(shot_data, pre, post)
    IN  IF thrown_stone # None
        THEN Target(BUTTON_X, BUTTON_Y, 7)
        ELSE Target(BUTTON_X, BUTTON_Y, 4)

_infer_hit_roll_target(shot_data, pre, post) ==
    LET thrown_stone == _find_thrown_stone(shot_data, pre, post)
    IN  IF thrown_stone # None
        THEN Target(thrown_stone.x, thrown_stone.y, 7)
        ELSE Target(BUTTON_X, BUTTON_Y, 4)

\* _infer_freeze_target with other_stones = [s for s in post if s != thrown_stone].
infer_freeze_target_other_records(shot_data, pre, post) ==
    LET thrown_stone == _find_thrown_stone(shot_data, pre, post)
        other_stones == SelectSeq(post, LAMBDA s : s # thrown_stone)
    IN  IF thrown_stone # None /\ other_stones # <<>>
        THEN LET closest_stone == Closest(other_stones, thrown_stone)
             IN  IF IsRaised(closest_stone) THEN closest_stone
                 ELSE Target((thrown_stone.x + closest_stone.x) \div 2,
                             (thrown_stone.y + closest_stone.y) \div 2, 8)
        ELSE Target(BUTTON_X, BUTTON_Y, 4)

_infer_freeze_target(shot_data, pre, post) ==
    LET thrown_stone == _find_thrown_stone(shot_data, pre, post)
        other_stones == SelectSeq(post, LAMBDA s : ~(s.x = thrown_stone.x /\ s.y = thrown_stone.y))
    IN  IF thrown_stone # None /\ other_stones # <<>>
        THEN LET closest_stone == Closest(other_stones, thrown_stone)
             IN  IF IsRaised(closest_stone) THEN closest_stone
                 ELSE Target((thrown_stone.x + closest_stone.x) \div 2,
                             (thrown_stone.y + closest_stone.y) \div 2, 8)
        ELSE Target(BUTTON_X, BUTTON_Y, 4)

\* _infer_tap_target delegating to _infer_hit_roll_target.
infer_tap_target_as_hit_roll(shot_data, pre, post) ==
    _infer_hit_roll_target(shot_data, pre, post)

_infer_tap_target(shot_data, pre, post) == _infer_takeout_target(shot_data, pre, post)

_infer_peel_target(shot_data, pre, post) == _infer_takeout_target(shot_data, pre, post)

\* infer_target with shot_type_targets.get(shot_type, self._infer_draw_target).
infer_target_default_draw(shot_data, pre, post) ==
    LET shot_type == shot_data.type
    IN  CASE shot_type = "Guard" -> _infer_guard_target(shot_data, pre, post)
          [] shot_type = "Take-out" -> _infer_takeout_target(shot_data, pre, post)
          [] shot_type = "Hit and Roll" -> _infer_hit_roll_target(shot_data, pre, post)
          [] shot_type = "Freeze" -> _infer_freeze_target(shot_data, pre, post)
          [] shot_type = "Tap" -> _infer_tap_target(shot_data, pre, post)
          [] shot_type = "Peel" -> _infer_peel_target(shot_data, pre, post)
          [] OTHER -> _infer_draw_target(shot_data, pre, post)

infer_target(shot_data, pre, post) ==
    LET shot_type == shot_data.type
    IN  IF shot_type \in shot_type_targets
        THEN CASE shot_type = "Draw" -> _infer_draw_target(shot_data, pre, post)
               [] shot_type = "Guard" -> _infer_guard_target(shot_data, pre, post)
               [] shot_type = "Take-out" -> _infer_takeout_target(shot_data, pre, post)
               [] shot_type = "Hit and Roll" -> _infer_hit_roll_target(shot_data, pre, post)
               [] shot_type = "Freeze" -> _infer_freeze_target(shot_data, pre, post)
               [] shot_type = "Tap" -> _infer_tap_target(shot_data, pre, post)
               [] shot_type = "Peel" -> _infer_peel_target(shot_data, pre, post)
        ELSE Target(BUTTON_X, BUTTON_Y, 3)

(* ---------------------- Accuracy Metric Calculator --------------------- *)

\* The ordered items of DISTANCE_THRESHOLDS, in half-millimetres; inf marks
\* float('inf').
DISTANCE_THRESHOLDS ==
    << [category |-> "on_target", threshold |-> 400, inf |-> FALSE],
       [category |-> "close", threshold |-> 1000, inf |-> FALSE],
       [category |-> "moderate", threshold |-> 2000, inf |-> FALSE],
       [category |-> "large", threshold |-> 0, inf |-> TRUE] >>

\* The ordered items of DIRECTION_THRESHOLDS, in micro-degrees.
DIRECTION_THRESHOLDS ==
    << [category |-> "on_line", threshold |-> 3000000, inf |-> FALSE],
       [category |-> "slight", threshold |-> 8000000, inf |-> FALSE],
       [category |-> "moderate", threshold |-> 15000000, inf |-> FALSE],
       [category |-> "large", threshold |-> 0, inf |-> TRUE] >>

\* np.degrees(np.arctan2(y, x)) to the nearest micro-degree, as <<x, y, angle>>,
\* for the positions (other than the origin) the specifications below draw,
\* the midpoints between them and the default guard point.
ARCTAN2_UDEG ==
    { <<600, 200, 18434949>>, <<-600, 200, 161565051>>,
      <<300, 100, 18434949>>, <<-300, 100, 161565051>>, <<0, 200, 90000000>>,
      <<3658, 0, 0>>, <<3660, 0, 0>>,
      <<2586, -2586, -45000000>>, <<2588, -2588, -45000000>>,
      <<0, 7000, 90000000>>,
      <<600, 2998, 78682717>>, <<600, 3000, 78690068>>, <<-600, 3000, 101309932>>,
      <<0, 12000, 90000000>>, <<-600, 12002, 92861929>>,
      <<300, 0, 0>>, <<400, 0, 0>>, <<401, 0, 0>>, <<1000, 0, 0>>,
      <<1001, 0, 0>>, <<2000, 0, 0>>, <<2001, 0, 0>>, <<2400, 0, 0>>,
      <<3400, 0, 0>>, <<4000, 0, 0>>, <<-600, 0, 180000000>>, <<-600, -200, -161565051>>,
      <<4000, 400, 5710593>>, <<2000, 400, 11309932>> }

arctan2_degrees(y, x) == (CHOOSE e \in ARCTAN2_UDEG : e[1] = x /\ e[2] = y)[3]

Abs(v) == IF v < 0 THEN -v ELSE v

\* for category, threshold in table.items(): if error <= threshold: ...; break
\* where fits[i] tells whether the error is within the i-th threshold, with
\* the 'large' the code assigns before the loop when nothing fits.
Categorize(table, fits) ==
    LET hit == {i \in DOMAIN table : fits[i]}
    IN  IF hit = {} THEN "large" ELSE table[Min(hit)].category

\* The square of np.sqrt((final_x - target_x)**2 + (final_y - target_y)**2)
\* without the y term.
distance_error2_x_only(target, final_position) ==
    (final_position.x - target.x) * (final_position.x - target.x)

\* The square of target_distance_error.
distance_error2(target, final_position) == Dist2(final_position, target)

\* angle_of with np.arctan2(0.0, -0.0), 180 degrees, for the origin.
angle_of_origin_as_pi(position) ==
    IF position.x # 0 \/ position.y # 0
    THEN arctan2_degrees(position.y, position.x) ELSE 180000000

\* np.arctan2(p['y'], p['x']) if p['x'] != 0 or p['y'] != 0 else 0, in degrees.
angle_of(position) ==
    IF position.x # 0 \/ position.y # 0
    THEN arctan2_degrees(position.y, position.x) ELSE 0

\* direction_error without "if path_direction_error > 180".
direction_error_unwrapped(target, final_position) ==
    Abs(angle_of(target) - angle_of(final_position))

\* path_direction_error as the angles of the two positions give it.
direction_error(target, final_position) ==
    LET target_angle == angle_of(target)
        final_angle == angle_of(final_position)
        raw_error == Abs(target_angle - final_angle)
    IN  IF raw_error > 180000000 THEN 360000000 - raw_error ELSE raw_error

\* distance_category_of with "target_distance_error < threshold".
distance_category_strict(distance_error_squared) ==
    Categorize(DISTANCE_THRESHOLDS,
               [i \in DOMAIN DISTANCE_THRESHOLDS |->
                   LET t == DISTANCE_THRESHOLDS[i]
                   IN  t.inf \/ distance_error_squared < t.threshold * t.threshold])

\* The first loop, on the square of target_distance_error.
distance_category_of(distance_error_squared) ==
    Categorize(DISTANCE_THRESHOLDS,
               [i \in DOMAIN DISTANCE_THRESHOLDS |->
                   LET t == DISTANCE_THRESHOLDS[i]
                   IN  t.inf \/ distance_error_squared <= t.threshold * t.threshold])

\* direction_category_of with "path_direction_error >= threshold".
direction_category_reversed(direction_error_value) ==
    Categorize(DIRECTION_THRESHOLDS,
               [i \in DOMAIN DIRECTION_THRESHOLDS |->
                   LET t == DIRECTION_THRESHOLDS[i]
                   IN  t.inf \/ direction_error_value >= t.threshold])

\* The second loop.
direction_category_of(direction_error_value) ==
    Categorize(DIRECTION_THRESHOLDS,
               [i \in DOMAIN DIRECTION_THRESHOLDS |->
                   LET t == DIRECTION_THRESHOLDS[i]
                   IN  t.inf \/ direction_error_value <= t.threshold])

\* error_magnitude_of with 'minor' for every on_target shot.
error_magnitude_minor_by_distance(distance_cat, direction_cat) ==
    IF distance_cat \in {"on_target"}
    THEN "minor"
    ELSE IF /\ distance_cat \in {"on_target", "close"}
            /\ direction_cat \in {"on_line", "slight", "moderate"}
         THEN "moderate"
         ELSE "major"

\* error_magnitude_of with ['on_target'] for ['on_target', 'close'] in the elif.
error_magnitude_moderate_on_target(distance_cat, direction_cat) ==
    IF distance_cat \in {"on_target"} /\ direction_cat \in {"on_line", "slight"}
    THEN "minor"
    ELSE IF /\ distance_cat \in {"on_target"}
            /\ direction_cat \in {"on_line", "slight", "moderate"}
         THEN "moderate"
         ELSE "major"

\* error_magnitude_of without the test of the direction category in the elif.
error_magnitude_moderate_by_distance(distance_cat, direction_cat) ==
    IF distance_cat \in {"on_target"} /\ direction_cat \in {"on_line", "slight"}
    THEN "minor"
    ELSE IF distance_cat \in {"on_target", "close"}
         THEN "moderate"
         ELSE "major"

\* The if / elif / else on the two categories.
error_magnitude_of(distance_cat, direction_cat) ==
    IF distance_cat \in {"on_target"} /\ direction_cat \in {"on_line", "slight"}
    THEN "minor"
    ELSE IF /\ distance_cat \in {"on_target", "close"}
            /\ direction_cat \in {"on_line", "slight", "moderate"}
         THEN "moderate"
         ELSE "major"

\* The second half of calculate_accuracy_metrics: from the two errors to the
\* record it returns.
categorize_errors(distance_error_squared, direction_error_value) ==
    LET distance_category == distance_category_of(distance_error_squared)
        direction_category == direction_category_of(direction_error_value)
        error_magnitude == error_magnitude_of(distance_category, direction_category)
    IN  [target_distance_error2 |-> distance_error_squared,
         path_direction_error |-> direction_error_value,
         distance_category |-> distance_category,
         direction_category |-> direction_category,
         error_magnitude |-> error_magnitude]

\* calculate_accuracy_metrics returning 'major' for a target inferred with a
\* confidence below 0.5.
calculate_accuracy_metrics_by_confidence(shot_id, target, final_position) ==
    LET target_distance_error2 == distance_error2(target, final_position)
        path_direction_error == direction_error(target, final_position)
        metrics == categorize_errors(target_distance_error2, path_direction_error)
    IN  IF target.confidence < 5 THEN [metrics EXCEPT !.error_magnitude = "major"]
        ELSE metrics

calculate_accuracy_metrics(shot_id, target, final_position) ==
    LET \* the square of target_distance_error
        target_distance_error2 == distance_error2(target, final_position)
        path_direction_error == direction_error(target, final_position)
    IN  categorize_errors(target_distance_error2, path_direction_error)

\* process_shot_accuracy once the shot row and the two snapshots are read:
\* pre is the snapshot stored for the previous shot of the end (empty for
\* shot number 1), post the one stored for the shot itself.
process_shot_accuracy_sentinel(shot_data, pre, post) ==
    IF post = <<>> THEN None
    ELSE LET target == infer_target(shot_data, pre, post)
             thrown_stone == _find_thrown_stone(shot_data, pre, post)
         IN  IF IsRaised(target) THEN target
             ELSE IF thrown_stone = None
             THEN [target_distance_error2 |-> 0,
                   path_direction_error |-> 0,
                   distance_category |-> "unknown",
                   direction_category |-> "unknown",
                   error_magnitude |-> "unknown",
                   shot_id |-> shot_data.id,
                   final_position_x |-> 0,
                   final_position_y |-> 0,
                   target_x |-> target.x,
                   target_y |-> target.y,
                   target_confidence |-> target.confidence]
             ELSE LET metrics == calculate_accuracy_metrics(shot_data.id, target, thrown_stone)
                  IN  [target_distance_error2 |-> metrics.target_distance_error2,
                       path_direction_error |-> metrics.path_direction_error,
                       distance_category |-> metrics.distance_category,
                       direction_category |-> metrics.direction_category,
                       error_magnitude |-> metrics.error_magnitude,
                       shot_id |-> shot_data.id,
                       final_position_x |-> thrown_stone.x,
                       final_position_y |-> thrown_stone.y,
                       target_x |-> target.x,
                       target_y |-> target.y,
                       target_confidence |-> target.confidence]

process_shot_accuracy(shot_data, pre, post) ==
    IF post = <<>> THEN None
    ELSE LET target == infer_target(shot_data, pre, post)
             thrown_stone == _find_thrown_stone(shot_data, pre, post)
         IN  IF IsRaised(target) THEN target
             ELSE IF thrown_stone = None THEN None
             ELSE LET metrics == calculate_accuracy_metrics(shot_data.id, target, thrown_stone)
                  IN  [target_distance_error2 |-> metrics.target_distance_error2,
                       path_direction_error |-> metrics.path_direction_error,
                       distance_category |-> metrics.distance_category,
                       direction_category |-> metrics.direction_category,
                       error_magnitude |-> metrics.error_magnitude,
                       shot_id |-> shot_data.id,
                       final_position_x |-> thrown_stone.x,
                       final_position_y |-> thrown_stone.y,
                       target_x |-> target.x,
                       target_y |-> target.y,
                       target_confidence |-> target.confidence]

(* ------------------------------ database ------------------------------ *)

\* LIMIT 100 of populate_enhanced_accuracy_data.
POPULATE_LIMIT == 100

Limit(rows, n) == SubSeq(rows, 1, Min({Len(rows), n}))

\* to_dict('records') of SELECT color, x, y: the stones of position rows.
ToRecords(rows) == [i \in DOMAIN rows |-> [color |-> rows[i].color, x |-> rows[i].x, y |-> rows[i].y]]

\* SELECT s.* FROM shots s ... WHERE s.id = ?
ShotRows(shot_id) == SelectSeq(shots, LAMBDA s : s.id = shot_id)

\* SELECT color, x, y FROM stone_positions WHERE shot_id = ?
PositionsOf(shot_id) ==
    ToRecords(SelectSeq(stone_positions, LAMBDA sp : sp.shot_id = shot_id))

\* SELECT sp.color, sp.x, sp.y FROM stone_positions sp
\* JOIN shots s ON sp.shot_id = s.id WHERE s.end_id = ? AND s.number = ?
PositionsOfNumber(end_id, number) ==
    ToRecords(SelectSeq(stone_positions,
                        LAMBDA sp : \E i \in DOMAIN shots :
                                        /\ shots[i].id = sp.shot_id
                                        /\ shots[i].end_id = end_id
                                        /\ shots[i].number = number))

\* The stone positions before a shot: those stored for the shot numbered one
\* less in the same end, none for a shot numbered 1 or less.
PreSnapshot_any_end(shot_data) ==
    IF shot_data.number > 1
    THEN ToRecords(SelectSeq(stone_positions,
             LAMBDA sp : \E i \in DOMAIN shots :
                 shots[i].id = sp.shot_id /\ shots[i].number = shot_data.number - 1))
    ELSE <<>>

PreSnapshot(shot_data) ==
    IF shot_data.number > 1
    THEN PositionsOfNumber(shot_data.end_id, shot_data.number - 1)
    ELSE <<>>

\* process_shot_accuracy(shot_id) from its first line: the reads of the shot
\* row and of the two snapshots, then the rest.
process_shot_accuracy_by_id(shot_id) ==
    IF shot_id \in failures.processing THEN Raised("Exception")
    ELSE IF ShotRows(shot_id) = <<>> THEN None
    ELSE LET shot_data == ShotRows(shot_id)[1]
         IN  process_shot_accuracy(shot_data, PreSnapshot(shot_data), PositionsOf(shot_id))

\* SELECT DISTINCT s.id, ... FROM shots s
\* JOIN stone_positions sp ON s.id = sp.shot_id ORDER BY s.id
ShotsWithPositions ==
    SelectSeq(shots, LAMBDA s : \E i \in DOMAIN stone_positions :
                                    stone_positions[i].shot_id = s.id)

\* The columns both batch operations insert into shot_accuracy_metrics.
MetricsRow(shot_id, metrics, final_x, final_y) ==
    [shot_id |-> shot_id,
     target_distance_error2 |-> metrics.target_distance_error2,
     final_position_x |-> final_x,
     final_position_y |-> final_y,
     path_direction_error |-> metrics.path_direction_error,
     distance_category |-> metrics.distance_category,
     direction_category |-> metrics.direction_category,
     error_magnitude |-> metrics.error_magnitude]

\* INSERT and INSERT OR REPLACE of rows without id into a table whose only key
\* is id INTEGER PRIMARY KEY: each row gets a new id, none is replaced.
Insert(table, rows) == table \o rows

\* The loop of populate_enhanced_accuracy_data over shot_ids, results[k] being
\* what process_shot_accuracy gives for shot_ids[k]: the table it leaves and
\* what it ends with, the processed_count it prints or the exception that
\* leaves it.
populate_loop(shot_ids, results) ==
    LET \* process_shot_accuracy is called outside the try
        raising == {k \in DOMAIN shot_ids : IsRaised(results[k])}
        reached == IF raising = {} THEN DOMAIN shot_ids ELSE 1..(Min(raising) - 1)
        written == SelectSeq([k \in DOMAIN shot_ids |-> k],
                             LAMBDA k : /\ k \in reached
                                        /\ results[k] # None
                                        /\ shot_ids[k].id \notin failures.inserting)
        rows == [n \in DOMAIN written |->
                    MetricsRow(results[written[n]].shot_id, results[written[n]],
                               results[written[n]].final_position_x,
                               results[written[n]].final_position_y)]
    IN  [table |-> Insert(shot_accuracy_metrics, rows),
         ret |-> IF raising = {} THEN [processed_count |-> Len(written)]
                 ELSE Raised("Exception")]

populate_enhanced_accuracy_data ==
    populate_loop(Limit(ShotsWithPositions, POPULATE_LIMIT),
                  [k \in DOMAIN Limit(ShotsWithPositions, POPULATE_LIMIT) |->
                      process_shot_accuracy_by_id(Limit(ShotsWithPositions, POPULATE_LIMIT)[k].id)])

\* The body of the loop of calculate_enhanced_accuracy_metrics for one row of
\* shots_df: the row it inserts, None where it continues, the exception its
\* except clause catches.
enhanced_accuracy_row(shot_row) ==
    IF shot_row.id \in failures.processing THEN Raised("Exception")
    ELSE LET pre == PreSnapshot(shot_row)
             post == PositionsOf(shot_row.id)
         IN  IF post = <<>> THEN None
             ELSE LET target == infer_target(shot_row, pre, post)
                      thrown_stone == _find_thrown_stone(shot_row, pre, post)
                  IN  IF IsRaised(target) THEN target
                      ELSE IF thrown_stone = None THEN None
                      ELSE IF shot_row.id \in failures.inserting THEN Raised("Exception")
                      ELSE MetricsRow(shot_row.id,
                                      calculate_accuracy_metrics(shot_row.id, target, thrown_stone),
                                      thrown_stone.x, thrown_stone.y)

\* The loop of calculate_enhanced_accuracy_metrics over shots_df, results[k]
\* being what the loop body gives for shots_df[k].
accuracy_loop(shots_df, results) ==
    LET written == SelectSeq([k \in DOMAIN shots_df |-> k],
                             LAMBDA k : "shot_id" \in DOMAIN results[k])
        rows == [n \in DOMAIN written |-> results[written[n]]]
    IN  [table |-> Insert(shot_accuracy_metrics, rows),
         ret |-> [processed_count |-> Len(written)]]

\* calculate_enhanced_accuracy_metrics of complete_accuracy_pipeline.py.
calculate_enhanced_accuracy_metrics ==
    accuracy_loop(ShotsWithPositions,
                  [k \in DOMAIN ShotsWithPositions |->
                      enhanced_accuracy_row(ShotsWithPositions[k])])

\* The three conditional expressions of generate_large_dataset on the drawn
\* target_distance_error (half-millimetres) and direction_error
\* (micro-degrees).
generated_distance_category(target_distance_error) ==
    IF target_distance_error < 400 THEN "on_target"
    ELSE IF target_distance_error < 1000 THEN "short" ELSE "long"

generated_direction_category(direction_error_value) ==
    IF Abs(direction_error_value) < 3000000 THEN "on_line"
    ELSE IF direction_error_value < 0 THEN "left" ELSE "right"

generated_error_magnitude(target_distance_error) ==
    IF target_distance_error < 600 THEN "minor"
    ELSE IF target_distance_error < 1600 THEN "moderate" ELSE "major"

\* generate_large_dataset for one tournament of one game of one end of one
\* shot: the three tables it leaves, given what its random draws returned
\* (the shot type, the final position, the two errors).
generate_large_dataset(shot_type, final, target_distance_error, direction_error_value) ==
    LET shot_id == 1
        end_id == 1
        shot_num == 1
        team == IF shot_num % 2 = 1 THEN "red" ELSE "yellow"
    IN  [shots |-> << [id |-> shot_id, type |-> shot_type, color |-> team,
                       end_id |-> end_id, number |-> shot_num] >>,
         stone_positions |-> << [shot_id |-> shot_id, color |-> team,
                                 x |-> final[1], y |-> final[2]] >>,
         shot_accuracy_metrics |->
             Insert(<<>>,
                    << [shot_id |-> shot_id,
                        target_distance_error2 |-> target_distance_error * target_distance_error,
                        final_position_x |-> final[1],
                        final_position_y |-> final[2],
                        path_direction_error |-> direction_error_value,
                        distance_category |-> generated_distance_category(target_distance_error),
                        direction_category |-> generated_direction_category(direction_error_value),
                        error_magnitude |-> generated_error_magnitude(target_distance_error)] >>)]

(* ----------------------------- input sets ------------------------------ *)

SeqsUpTo(S, n) == UNION {[1..k -> S] : k \in 0..n}

Stones(points) == {Stone(c, p) : c \in Colors, p \in points}

\* The shot rows: one identifier, every acting side, the given shot types.
Shots(types) == [id : {1}, type : types, color : Colors]

\* Two positions: what the differ and the dispatch tell apart is whether
\* labels and coordinates are equal.
DifferPoints == {<<0, 0>>, <<600, 200>>}

\* The button and two positions equally far from it, 0.3 m to either side.
ContactPoints == {<<0, 0>>, <<600, 200>>, <<-600, 200>>}

\* The button, the edge of the house on the x axis and 1 mm beyond it, and the
\* last and first millimetre positions inside and outside it on a diagonal.
DrawPoints == {<<0, 0>>, <<3658, 0>>, <<3660, 0>>, <<2586, -2586>>, <<2588, -2588>>}

\* Positions 1 mm short of the guard corridor, on its near edge y = 1.5 m to
\* either side of the centre line, on its far edge y = 6.0 m and 1 mm past it.
GuardPoints == {<<600, 2998>>, <<600, 3000>>, <<-600, 3000>>, <<0, 12000>>, <<-600, 12002>>}

\* A position as calculate_accuracy_metrics reads it: the keys 'x' and 'y'.
Position(p) == [x |-> p[1], y |-> p[2]]

\* The button; positions on the x axis at 0.15 m, at each distance threshold
\* and half a millimetre beyond it, at 1.2 m, 1.7 m and 2 m; positions at
\* 180 degrees and to either side of the negative x axis; and positions 0.2 m
\* off the x axis at 1 m and at 2 m.
MetricPoints ==
    { <<0, 0>>, <<300, 0>>, <<400, 0>>, <<401, 0>>, <<1000, 0>>, <<1001, 0>>,
      <<2000, 0>>, <<2001, 0>>, <<2400, 0>>, <<3400, 0>>, <<4000, 0>>,
      <<-600, 0>>, <<-600, 200>>, <<-600, -200>>, <<4000, 400>>, <<2000, 400>> }

\* Distance errors in half-millimetres: each threshold, half a millimetre to
\* either side of the first and beyond the others, none and 2.5 m.
DistanceErrors == {0, 399, 400, 401, 1000, 1001, 2000, 2001, 5000}

\* Direction errors in micro-degrees: each threshold, a micro-degree to
\* either side of the first and beyond the others, none and 180 degrees.
DirectionErrors ==
    {0, 2999999, 3000000, 3000001, 8000000, 8000001, 15000000, 15000001, 180000000}

MetricArgs(points) ==
    [target : {Position(p) : p \in points}, final_position : {Position(p) : p \in points}]

Errors(distances, directions) ==
    [target_distance_error2 : {d * d : d \in distances}, path_direction_error : directions]

\* A position in the house and short of the guard corridor; positions on the
\* near edge of the corridor and 1 mm short of it, both in the house; one on
\* the far edge of the corridor, beyond the house; one 1 mm beyond the house
\* and short of the corridor.
SelfPoints == {<<600, 200>>, <<600, 3000>>, <<600, 2998>>, <<0, 12000>>, <<3660, 0>>}

\* No shot fails.
NoFailures == [processing |-> {}, inserting |-> {}]

\* Empty tables, with one batch run left.
EmptyDatabase ==
    /\ shots = <<>>
    /\ stone_positions = <<>>
    /\ shot_accuracy_metrics = <<>>
    /\ failures = NoFailures
    /\ runs = MaxRuns - 1

InitWith(types, points, maxPre, maxPost) ==
    /\ EmptyDatabase
    /\ shot \in Shots(types)
    /\ pre_shot_stones \in SeqsUpTo(Stones(points), maxPre)
    /\ post_shot_stones \in SeqsUpTo(Stones(points), maxPost)
    /\ metric_args \in MetricArgs({<<0, 0>>})
    /\ errors \in Errors({0}, {0})
    /\ call = "none"
    /\ ret = None

\* Every shot type over short snapshots.
Init == InitWith(shot_type_targets \cup UnknownTypes, DifferPoints, MaxStones - 1, MaxStones)

InitTakeout == InitWith({"Take-out"}, ContactPoints, MaxStones - 1, MaxStones)

InitFreeze == InitWith({"Freeze"}, ContactPoints, MaxStones - 1, MaxStones)

InitDraw == InitWith({"Draw"}, DrawPoints, MaxStones - 2, MaxStones - 1)

InitGuard == InitWith({"Guard"}, GuardPoints, MaxStones - 2, MaxStones - 1)

\* The three shot types whose target can be the thrown stone's own position.
InitSelf ==
    InitWith({"Draw", "Guard", "Hit and Roll"}, SelfPoints, MaxStones - 2, MaxStones - 1)

\* calculate_accuracy_metrics on every pair of metric positions.
InitMetrics ==
    /\ EmptyDatabase
    /\ shot \in Shots({"Draw"})
    /\ pre_shot_stones = <<>>
    /\ post_shot_stones = <<>>
    /\ metric_args \in MetricArgs(MetricPoints)
    /\ errors \in Errors({0}, {0})
    /\ call = "none"
    /\ ret = None

\* The button and two positions off it.
LabelledPoints == {<<0, 0>>, <<600, 200>>, <<2000, 400>>}

\* calculate_accuracy_metrics as process_shot_accuracy calls it: the target
\* with its confidence, the final position with its label, and the shot
\* identifier, each with more than one value.
InitMetricInputs ==
    /\ EmptyDatabase
    /\ shot \in [id : {1, 2}, type : {"Draw"}, color : Colors]
    /\ pre_shot_stones = <<>>
    /\ post_shot_stones = <<>>
    /\ metric_args \in [target : {Target(p[1], p[2], c) : p \in LabelledPoints, c \in {3, 9}},
                        final_position : Stones(LabelledPoints)]
    /\ errors \in Errors({0}, {0})
    /\ call = "none"
    /\ ret = None

\* The categorisation on every pair of error values.
InitCategories ==
    /\ EmptyDatabase
    /\ shot \in Shots({"Draw"})
    /\ pre_shot_stones = <<>>
    /\ post_shot_stones = <<>>
    /\ metric_args \in MetricArgs({<<0, 0>>})
    /\ errors \in Errors(DistanceErrors, DirectionErrors)
    /\ call = "none"
    /\ ret = None

\* The shots tables of n rows with the identifiers 1 .. n, in id order.
ShotTables(n, types, colors, ends, numbers) ==
    {[i \in 1..n |-> [id |-> i, type |-> attrs[i].type, color |-> attrs[i].color,
                      end_id |-> attrs[i].end_id, number |-> attrs[i].number]] :
        attrs \in [1..n -> [type : types, color : colors, end_id : ends, number : numbers]]}

\* The stone_positions tables of at most MaxShots rows for the shots 1 .. n,
\* the rows of a shot together and the shots in id order.
PositionTables(n, points) ==
    {sp \in SeqsUpTo({[shot_id |-> i, color |-> c, x |-> p[1], y |-> p[2]] :
                          i \in 1..n, c \in Colors, p \in points}, MaxShots) :
        \A i, j \in DOMAIN sp : i < j => sp[i].shot_id <= sp[j].shot_id}

\* At most one shot fails, in one of the two ways.
SingleFailures ==
    {NoFailures}
        \cup {[processing |-> {i}, inserting |-> {}] : i \in 1..MaxShots}
        \cup {[processing |-> {}, inserting |-> {i}] : i \in 1..MaxShots}

\* A database of up to MaxShots shots and no metrics, before any call.
InitDatabase(types, colors, ends, numbers, points, failing, runsBefore) ==
    /\ \E n \in 0..MaxShots :
           /\ shots \in ShotTables(n, types, colors, ends, numbers)
           /\ stone_positions \in PositionTables(n, points)
    /\ shot_accuracy_metrics = <<>>
    /\ failures \in failing
    /\ runs = runsBefore
    /\ shot = [id |-> 1, type |-> "Draw", color |-> "red"]
    /\ pre_shot_stones = <<>>
    /\ post_shot_stones = <<>>
    /\ metric_args \in MetricArgs({<<0, 0>>})
    /\ errors \in Errors({0}, {0})
    /\ call = "none"
    /\ ret = None

\* Take-outs of one side in two ends, numbered 1 and 2, with positions of
\* both sides, every access succeeding.
InitSnapshots ==
    InitDatabase({"Take-out"}, {"red"}, {1, 2}, {1, 2}, DifferPoints, {NoFailures},
                 MaxRuns - 1)

\* Draws of either side numbered 1 in one end, at most one of them failing,
\* before the first batch run.
InitBatch == InitDatabase({"Draw"}, Colors, {1}, {1}, DifferPoints, SingleFailures, 0)

CallFindThrown ==
    /\ call = "none"
    /\ call' = "_find_thrown_stone"
    /\ ret' = _find_thrown_stone(shot, pre_shot_stones, post_shot_stones)
    /\ UNCHANGED <<shot, pre_shot_stones, post_shot_stones, metric_args, errors, database>>

CallFindRemoved ==
    /\ call = "none"
    /\ call' = "_find_removed_stones"
    /\ ret' = _find_removed_stones(pre_shot_stones, post_shot_stones)
    /\ UNCHANGED <<shot, pre_shot_stones, post_shot_stones, metric_args, errors, database>>

CallInferTarget ==
    /\ call = "none"
    /\ call' = "infer_target"
    /\ ret' = infer_target(shot, pre_shot_stones, post_shot_stones)
    /\ UNCHANGED <<shot, pre_shot_stones, post_shot_stones, metric_args, errors, database>>

CallProcessShotAccuracy ==
    /\ call = "none"
    /\ call' = "process_shot_accuracy"
    /\ ret' = process_shot_accuracy(shot, pre_shot_stones, post_shot_stones)
    /\ UNCHANGED <<shot, pre_shot_stones, post_shot_stones, metric_args, errors, database>>

CallCalculateAccuracyMetrics ==
    /\ call = "none"
    /\ call' = "calculate_accuracy_metrics"
    /\ ret' = calculate_accuracy_metrics(shot.id, metric_args.target, metric_args.final_position)
    /\ UNCHANGED <<shot, pre_shot_stones, post_shot_stones, metric_args, errors, database>>

\* calculate_accuracy_metrics from "# Categorize errors" on.
CategorizeErrors ==
    /\ call = "none"
    /\ call' = "categorize_errors"
    /\ ret' = categorize_errors(errors.target_distance_error2, errors.path_direction_error)
    /\ UNCHANGED <<shot, pre_shot_stones, post_shot_stones, metric_args, errors, database>>

\* process_shot_accuracy(shot_id): shot, pre_shot_stones and post_shot_stones
\* become the row and the snapshots it read.
CallProcessShotAccuracyById ==
    /\ call = "none"
    /\ \E shot_id \in 1..MaxShots :
           /\ call' = "process_shot_accuracy_by_id"
           /\ ret' = process_shot_accuracy_by_id(shot_id)
           /\ IF shot_id \notin failures.processing /\ ShotRows(shot_id) # <<>>
              THEN /\ shot' = ShotRows(shot_id)[1]
                   /\ pre_shot_stones' = PreSnapshot(ShotRows(shot_id)[1])
                   /\ post_shot_stones' = PositionsOf(shot_id)
              ELSE UNCHANGED <<shot, pre_shot_stones, post_shot_stones>>
    /\ UNCHANGED <<metric_args, errors, database>>

BatchCalls ==
    {"populate_enhanced_accuracy_data", "calculate_enhanced_accuracy_metrics",
     "generate_large_dataset"}

\* A batch operation runs on its own, first or after another.
BatchReady == call \in {"none"} \cup BatchCalls /\ runs < MaxRuns

PopulateEnhancedAccuracyData ==
    /\ BatchReady
    /\ call' = "populate_enhanced_accuracy_data"
    /\ \E done \in {populate_enhanced_accuracy_data} :
           /\ shot_accuracy_metrics' = done.table
           /\ ret' = done.ret
    /\ runs' = runs + 1
    /\ UNCHANGED <<shot, pre_shot_stones, post_shot_stones, metric_args, errors,
                   shots, stone_positions, failures>>

CalculateEnhancedAccuracyMetrics ==
    /\ BatchReady
    /\ call' = "calculate_enhanced_accuracy_metrics"
    /\ \E done \in {calculate_enhanced_accuracy_metrics} :
           /\ shot_accuracy_metrics' = done.table
           /\ ret' = done.ret
    /\ runs' = runs + 1
    /\ UNCHANGED <<shot, pre_shot_stones, post_shot_stones, metric_args, errors,
                   shots, stone_positions, failures>>

\* What the random draws of generate_large_dataset return for the two errors:
\* 0.1 m and 0 degrees, 0.4 m and 5 degrees, 1.0 m and 5 degrees.
GeneratedErrors == {<<200, 0>>, <<800, 5000000>>, <<2000, 5000000>>}

GenerateLargeDataset ==
    /\ BatchReady
    /\ \E drawn \in GeneratedErrors :
           LET generated == generate_large_dataset("Draw", <<0, 12000>>, drawn[1], drawn[2])
           IN  /\ shots' = generated.shots
               /\ stone_positions' = generated.stone_positions
               /\ shot_accuracy_metrics' = generated.shot_accuracy_metrics
    /\ call' = "generate_large_dataset"
    /\ ret' = None
    /\ runs' = runs + 1
    /\ UNCHANGED <<shot, pre_shot_stones, post_shot_stones, metric_args, errors, failures>>

Next ==
    \/ CallProcessShotAccuracyById
    \/ PopulateEnhancedAccuracyData
    \/ CalculateEnhancedAccuracyMetrics
    \/ GenerateLargeDataset
    \/ CallFindThrown
    \/ CallFindRemoved
    \/ CallInferTarget
    \/ CallProcessShotAccuracy
    \/ CallCalculateAccuracyMetrics
    \/ CategorizeErrors

Spec == Init /\ [][Next]_vars

SpecTakeout == InitTakeout /\ [][Next]_vars

SpecFreeze == InitFreeze /\ [][Next]_vars

SpecDraw == InitDraw /\ [][Next]_vars

SpecGuard == InitGuard /\ [][Next]_vars

SpecSelf == InitSelf /\ [][Next]_vars

SpecMetrics == InitMetrics /\ [][Next]_vars

SpecCategories == InitCategories /\ [][Next]_vars

SpecMetricInputs == InitMetricInputs /\ [][Next]_vars

SpecSnapshots == InitSnapshots /\ [][Next]_vars

SpecBatch == InitBatch /\ [][Next]_vars

(* ------------------------------ properties ---------------------------- *)

SamePlace(a, b) == a.x = b.x /\ a.y = b.y

\* The indices of the acting side's positions in the pre-shot snapshot.
SidePre == {j \in DOMAIN pre_shot_stones : pre_shot_stones[j].color = shot.color}

SidePost == {i \in DOMAIN post_shot_stones : post_shot_stones[i].color = shot.color}

\* The acting side's post-shot positions at a place where the side had no
\* position before the shot.
Candidates ==
    {i \in SidePost : \A j \in SidePre : ~SamePlace(pre_shot_stones[j], post_shot_stones[i])}

Count(seq, e) == Cardinality({i \in DOMAIN seq : seq[i] = e})

\* The two snapshots hold the same positions, each as often, in any order.
SameBag(a, b) ==
    /\ Len(a) = Len(b)
    /\ \A i \in DOMAIN a : Count(a, a[i]) = Count(b, a[i])

Without(seq, k) == [i \in 1..(Len(seq) - 1) |-> IF i < k THEN seq[i] ELSE seq[i + 1]]

\* post is pre and the one more position post[k], of the acting side.
InsertedAt(k) ==
    /\ post_shot_stones[k].color = shot.color
    /\ SameBag(Without(post_shot_stones, k), pre_shot_stones)

\* C1: _find_thrown_stone returns None when the acting side has no more
\* positions after the shot than before it; otherwise the first position of
\* post, in post's order, that is the acting side's and whose (x, y) is not
\* that of one of the side's positions in pre, or None when there is none.
\* The result is never the opponent's and never a position of pre.
C1_FindThrownContract ==
    call = "_find_thrown_stone" =>
        /\ Cardinality(SidePost) <= Cardinality(SidePre) => ret = None
        /\ Cardinality(SidePost) > Cardinality(SidePre) /\ Candidates = {} => ret = None
        /\ Cardinality(SidePost) > Cardinality(SidePre) /\ Candidates # {} =>
               \E i \in Candidates : /\ \A k \in Candidates : i <= k
                                     /\ ret = post_shot_stones[i]
        /\ ret # None => /\ ret.color = shot.color
                         /\ \A j \in DOMAIN pre_shot_stones : pre_shot_stones[j] # ret

\* Two different new positions of the acting side, and the one returned is
\* not the first position of post.
C1_Witness ==
    /\ call = "_find_thrown_stone"
    /\ ret # None
    /\ \E i \in Candidates : post_shot_stones[i] # ret
    /\ post_shot_stones[1] # ret

\* C2 as stated: whenever post is pre plus one inserted position of the acting
\* side, _find_thrown_stone returns that position; whenever post is pre, None.
C2_Original ==
    call = "_find_thrown_stone" =>
        /\ \A k \in DOMAIN post_shot_stones : InsertedAt(k) => ret = post_shot_stones[k]
        /\ SameBag(post_shot_stones, pre_shot_stones) => ret = None

\* C2, amended: when post is pre plus one inserted position of the acting
\* side, _find_thrown_stone returns that position if its (x, y) differs from
\* the (x, y) of every position the side has in pre, and None if it coincides
\* with one; when post is pre, None.
C2_SingleInsertion ==
    call = "_find_thrown_stone" =>
        /\ \A k \in DOMAIN post_shot_stones : InsertedAt(k) =>
               IF \A j \in SidePre : ~SamePlace(pre_shot_stones[j], post_shot_stones[k])
               THEN ret = post_shot_stones[k]
               ELSE ret = None
        /\ SameBag(post_shot_stones, pre_shot_stones) => ret = None

\* An insertion, not at the end of post, at a place where pre holds a
\* position of the opponent.
C2_Witness ==
    /\ call = "_find_thrown_stone"
    /\ \E k \in DOMAIN post_shot_stones :
           /\ InsertedAt(k)
           /\ k < Len(post_shot_stones)
           /\ ret = post_shot_stones[k]
           /\ \E j \in DOMAIN pre_shot_stones :
                  /\ pre_shot_stones[j].color # shot.color
                  /\ SamePlace(pre_shot_stones[j], post_shot_stones[k])

\* C3 as stated: with no candidate or with more than one, _find_thrown_stone
\* returns None and process_shot_accuracy returns no metrics.
C3_UniqueThrown ==
    call \in {"_find_thrown_stone", "process_shot_accuracy"} =>
        (Cardinality({post_shot_stones[i] : i \in Candidates}) # 1 => ret = None)

\* C4: _find_removed_stones returns the positions of pre, in pre's order, whose
\* (label, x, y) is that of no position of post; so nothing when post is pre
\* or pre is empty, and pre when post is empty.
C4_FindRemovedContract ==
    call = "_find_removed_stones" =>
        LET gone == {i \in DOMAIN pre_shot_stones :
                        \A j \in DOMAIN post_shot_stones :
                            \/ post_shot_stones[j].color # pre_shot_stones[i].color
                            \/ ~SamePlace(post_shot_stones[j], pre_shot_stones[i])}
            Nth(n) == CHOOSE i \in gone : Cardinality({k \in gone : k < i}) = n - 1
        IN  /\ Len(ret) = Cardinality(gone)
            /\ \A n \in 1..Len(ret) : ret[n] = pre_shot_stones[Nth(n)]
            /\ post_shot_stones = pre_shot_stones => ret = <<>>
            /\ post_shot_stones = <<>> => ret = pre_shot_stones
            /\ pre_shot_stones = <<>> => ret = <<>>

\* Two positions removed, a third kept, and a removed position whose place is
\* taken in post by a position with the other label.
C4_Witness ==
    /\ call = "_find_removed_stones"
    /\ Len(ret) >= 1
    /\ Len(ret) < Len(pre_shot_stones)
    /\ \E n \in DOMAIN ret : \E j \in DOMAIN post_shot_stones :
           SamePlace(post_shot_stones[j], ret[n]) /\ post_shot_stones[j].color # ret[n].color

\* The thrown object of the shot, as the differ finds it.
Thrown == _find_thrown_stone(shot, pre_shot_stones, post_shot_stones)

\* The indices of the positions of pre whose (label, x, y) is not in post.
Gone ==
    {i \in DOMAIN pre_shot_stones :
        \A j \in DOMAIN post_shot_stones : post_shot_stones[j] # pre_shot_stones[i]}

Inferring(type) == call = "infer_target" /\ shot.type = type

\* C5: infer_target returns a target with x, y and a confidence in [0, 1] for
\* every shot type, side and pair of snapshots; no exception leaves it.
C5_InferTargetTotal ==
    call = "infer_target" =>
        /\ DOMAIN ret = {"x", "y", "confidence"}
        /\ ret.x \in Int
        /\ ret.y \in Int
        /\ ret.confidence \in 0..10

\* A Take-out with an empty pre-shot snapshot and only the acting side's
\* positions after it: a thrown object and no opponent to take the nearest of.
C5_Witness ==
    /\ Inferring("Take-out")
    /\ pre_shot_stones = <<>>
    /\ Thrown # None
    /\ \A i \in DOMAIN post_shot_stones : post_shot_stones[i].color = shot.color
    /\ ret = Target(0, 0, 3)

\* C6: for a shot type that is none of the seven keys, infer_target returns
\* the button (0, 0) with confidence 0.3 whatever the snapshots hold.
C6_UnknownShotType ==
    /\ call = "infer_target"
    /\ shot.type \notin {"Draw", "Guard", "Take-out", "Hit and Roll", "Freeze", "Tap", "Peel"}
    => ret = Target(0, 0, 3)

\* The type 'draw', not the key 'Draw', with a thrown object away from the
\* button and positions removed.
C6_Witness ==
    /\ Inferring("draw")
    /\ Thrown # None
    /\ Thrown.x # 0
    /\ Gone # {}
    /\ ret = Target(0, 0, 3)

\* C7: for a Take-out with a position removed, the target is the first removed
\* position, in pre's order, with confidence 0.9, thrown object or not.
C7_TakeoutRemoved ==
    Inferring("Take-out") /\ Gone # {} =>
        LET first == CHOOSE i \in Gone : \A k \in Gone : i <= k
        IN  ret = Target(pre_shot_stones[first].x, pre_shot_stones[first].y, 9)

\* The claim's example: pre = [(red, 0, 0)], post = [(yellow, 0.3, 0.1)].
C7_Witness ==
    /\ Inferring("Take-out")
    /\ shot.color = "yellow"
    /\ pre_shot_stones = <<[color |-> "red", x |-> 0, y |-> 0]>>
    /\ post_shot_stones = <<[color |-> "yellow", x |-> 600, y |-> 200]>>
    /\ ret = Target(0, 0, 9)

OpponentColor == IF shot.color = "yellow" THEN "red" ELSE "yellow"

\* The indices of the opposing side's positions in a snapshot.
Opponents(stones) == {i \in DOMAIN stones : stones[i].color = OpponentColor}

\* stones[i] is one of the positions at indices I nearest to position t.
Nearest(stones, I, i, t) ==
    i \in I /\ \A k \in I : Dist2(stones[i], t) <= Dist2(stones[k], t)

\* stones[i] is the first, in the snapshot's order, of the nearest.
FirstNearest(stones, I, i, t) ==
    /\ Nearest(stones, I, i, t)
    /\ \A k \in I : Nearest(stones, I, k, t) => i <= k

\* C8 as stated: for a Take-out with nothing removed, a thrown object gives
\* the position of the opposing side's object nearest to it (of either
\* snapshot) with confidence 0.7, and no thrown object the button with 0.3.
C8_Original ==
    Inferring("Take-out") /\ Gone = {} =>
        IF Thrown # None
        THEN \/ \E i \in Opponents(pre_shot_stones) :
                    /\ Nearest(pre_shot_stones, Opponents(pre_shot_stones), i, Thrown)
                    /\ ret = Target(pre_shot_stones[i].x, pre_shot_stones[i].y, 7)
             \/ \E i \in Opponents(post_shot_stones) :
                    /\ Nearest(post_shot_stones, Opponents(post_shot_stones), i, Thrown)
                    /\ ret = Target(post_shot_stones[i].x, post_shot_stones[i].y, 7)
        ELSE ret = Target(0, 0, 3)

\* C8, amended: for a Take-out with nothing removed, a thrown object and an
\* opposing object in the pre-shot snapshot give the position of the opposing
\* object of that snapshot nearest to the thrown object (the first in pre's
\* order among the nearest) with confidence 0.7; with no thrown object, or
\* none of the opponent's in pre, the target is the button with 0.3.
C8_TakeoutNoRemoval ==
    Inferring("Take-out") /\ Gone = {} =>
        IF Thrown # None /\ Opponents(pre_shot_stones) # {}
        THEN \E i \in Opponents(pre_shot_stones) :
                 /\ FirstNearest(pre_shot_stones, Opponents(pre_shot_stones), i, Thrown)
                 /\ ret = Target(pre_shot_stones[i].x, pre_shot_stones[i].y, 7)
        ELSE ret = Target(0, 0, 3)

\* Two opposing objects at different distances from the thrown object, the
\* nearer one second in pre.
C8_Witness ==
    /\ Inferring("Take-out")
    /\ Gone = {}
    /\ Thrown # None
    /\ Len(pre_shot_stones) = 2
    /\ Opponents(pre_shot_stones) = {1, 2}
    /\ Dist2(pre_shot_stones[2], Thrown) < Dist2(pre_shot_stones[1], Thrown)
    /\ ret = Target(pre_shot_stones[2].x, pre_shot_stones[2].y, 7)

\* The indices of the positions of post at another place than the thrown object.
Elsewhere == {i \in DOMAIN post_shot_stones : ~SamePlace(post_shot_stones[i], Thrown)}

\* The index in post of the thrown object.
ThrownAt == CHOOSE i \in DOMAIN post_shot_stones :
                /\ post_shot_stones[i] = Thrown
                /\ \A k \in DOMAIN post_shot_stones : post_shot_stones[k] = Thrown => i <= k

Midpoint(a, b, conf) == Target((a.x + b.x) \div 2, (a.y + b.y) \div 2, conf)

\* C9 as stated: for a Freeze with a thrown object the target is the midpoint
\* between it and its nearest other object in post (another object of post, or
\* one at another place) with confidence 0.8; without one, the button with 0.4.
C9_Original ==
    Inferring("Freeze") =>
        IF Thrown # None
        THEN \/ \E i \in Elsewhere :
                    /\ Nearest(post_shot_stones, Elsewhere, i, Thrown)
                    /\ ret = Midpoint(Thrown, post_shot_stones[i], 8)
             \/ \E i \in DOMAIN post_shot_stones \ {ThrownAt} :
                    /\ Nearest(post_shot_stones, DOMAIN post_shot_stones \ {ThrownAt}, i, Thrown)
                    /\ ret = Midpoint(Thrown, post_shot_stones[i], 8)
        ELSE ret = Target(0, 0, 4)

\* C9, amended: for a Freeze with a thrown object and an object of post at
\* another (x, y), the target is the midpoint between the thrown object and the
\* nearest such object (the first in post's order among the nearest) with
\* confidence 0.8; with no thrown object, or no object elsewhere in post, the
\* target is the button with 0.4.
C9_FreezeHeuristic ==
    Inferring("Freeze") =>
        IF Thrown # None /\ Elsewhere # {}
        THEN \E i \in Elsewhere :
                 /\ FirstNearest(post_shot_stones, Elsewhere, i, Thrown)
                 /\ ret = Midpoint(Thrown, post_shot_stones[i], 8)
        ELSE ret = Target(0, 0, 4)

\* A thrown object at (0.3, 0.1), the farther object before the nearer one in
\* post, and the midpoint to the nearer one, the button, as target.
C9_Witness ==
    /\ Inferring("Freeze")
    /\ Thrown # None
    /\ Thrown.x = 600
    /\ \E i, k \in Elsewhere :
           /\ i < k
           /\ Dist2(post_shot_stones[k], Thrown) < Dist2(post_shot_stones[i], Thrown)
    /\ ret = Target(300, 100, 8)

\* C10: for a Draw, a thrown object within 1.829 m of the button (the edge
\* included) is its own target with confidence 0.8; one farther away gives the
\* button with 0.6; no thrown object gives the button with 0.2.
C10_DrawHeuristic ==
    Inferring("Draw") =>
        IF Thrown = None THEN ret = Target(0, 0, 2)
        ELSE IF Thrown.x * Thrown.x + Thrown.y * Thrown.y <= 3658 * 3658
             THEN ret = Target(Thrown.x, Thrown.y, 8)
             ELSE ret = Target(0, 0, 6)

\* A thrown object exactly 1.829 m from the button.
C10_Witness ==
    /\ Inferring("Draw")
    /\ Thrown # None
    /\ Thrown.x = 3658
    /\ Thrown.y = 0
    /\ ret = Target(3658, 0, 8)

\* C11: for a Guard, a thrown object whose y lies in [1.5, 6.0] m (both ends
\* included) is its own target with confidence 0.8; one with y outside gives
\* the default guard point (0, 3.5) with 0.5; no thrown object gives (0, 3.5)
\* with 0.3. The branch depends on y alone, never on x.
C11_GuardHeuristic ==
    Inferring("Guard") =>
        IF Thrown = None THEN ret = Target(0, 7000, 3)
        ELSE IF Thrown.y \in 3000..12000
             THEN ret = Target(Thrown.x, Thrown.y, 8)
             ELSE ret = Target(0, 7000, 5)

\* A thrown object on the far edge of the corridor, y = 6.0 m.
C11_Witness ==
    /\ Inferring("Guard")
    /\ Thrown # None
    /\ Thrown.y = 12000
    /\ ret = Target(0, 12000, 8)

\* C12: for a Hit and Roll, a thrown object is its own target with confidence
\* 0.7 and without one the target is the button with 0.4, whether or not
\* positions of the pre-shot snapshot are missing from the post-shot one.
C12_HitRollHeuristic ==
    Inferring("Hit and Roll") =>
        IF Thrown # None THEN ret = Target(Thrown.x, Thrown.y, 7)
        ELSE ret = Target(0, 0, 4)

\* A Hit and Roll that removed a position other than where the thrown object
\* came to rest.
C12_Witness ==
    /\ Inferring("Hit and Roll")
    /\ Thrown # None
    /\ \E i \in Gone : ~SamePlace(pre_shot_stones[i], Thrown)
    /\ ret = Target(Thrown.x, Thrown.y, 7)

\* The shot row with another shot type.
OfType(shot_data, type) == [shot_data EXCEPT !.type = type]

\* C13: for every side and pair of snapshots, infer_target returns for a Tap
\* and for a Peel the position and confidence it returns for the same shot
\* typed Take-out.
C13_TapPeelAsTakeout ==
    Inferring("Tap") \/ Inferring("Peel") =>
        ret = infer_target(OfType(shot, "Take-out"), pre_shot_stones, post_shot_stones)

\* A Tap that removed a position: the target is that position, with the
\* confidence 0.9 of a Take-out.
C13_Witness ==
    /\ Inferring("Tap")
    /\ Gone # {}
    /\ Thrown # None
    /\ ret = TargetAt(pre_shot_stones[Min(Gone)], 9)
    /\ ~SamePlace(ret, Thrown)

Measuring == call = "calculate_accuracy_metrics"

\* C14: for every target and final position, either or both at the button or
\* on opposite sides of the negative x axis included, the direction error
\* calculate_accuracy_metrics returns is between 0 and 180 degrees.
C14_DirectionWrapBound ==
    Measuring => ret.path_direction_error \in 0..180000000

\* Target and final position 18.43 degrees to either side of the negative x
\* axis: the angles differ by 323.13 degrees, the error is 36.87.
C14_Witness ==
    /\ Measuring
    /\ metric_args.target = Position(<<-600, 200>>)
    /\ metric_args.final_position = Position(<<-600, -200>>)
    /\ ret.path_direction_error = 36869898

AtOrigin(p) == p.x = 0 /\ p.y = 0

\* atan2(y, x) in degrees about the origin, 0 for the origin itself.
OriginAngle(p) == IF AtOrigin(p) THEN 0 ELSE arctan2_degrees(p.y, p.x)

\* C15: the direction error is the absolute difference of the angles atan2(y, x)
\* of target and final position about the origin, or 360 degrees minus it when
\* it exceeds 180; the origin has angle 0, so with the target at the origin the
\* error is the absolute angle of the final position (0 when both are there).
\* The direction from the target to the final position plays no part.
C15_DirectionErrorDefinition ==
    Measuring =>
        LET t == metric_args.target
            f == metric_args.final_position
            difference == Abs(OriginAngle(t) - OriginAngle(f))
        IN  /\ ret.path_direction_error =
                   IF difference > 180000000 THEN 360000000 - difference ELSE difference
            /\ AtOrigin(t) /\ AtOrigin(f) => ret.path_direction_error = 0
            /\ AtOrigin(t) /\ ~AtOrigin(f) =>
                   ret.path_direction_error = Abs(arctan2_degrees(f.y, f.x))

\* The target at the origin and the final position at -161.57 degrees.
C15_Witness ==
    /\ Measuring
    /\ AtOrigin(metric_args.target)
    /\ metric_args.final_position = Position(<<-600, -200>>)
    /\ ret.path_direction_error = 161565051

\* C16: the distance error of target a and final position b is the distance
\* error of target b and final position a, is not negative, and is 0 exactly
\* when a and b have the same coordinates (on the square of the error: sqrt is
\* not negative, and it is 0 only at 0).
C16_DistanceSymmetry ==
    Measuring =>
        LET a == metric_args.target
            b == metric_args.final_position
            swapped == calculate_accuracy_metrics(shot.id, b, a)
        IN  /\ ret.target_distance_error2 = swapped.target_distance_error2
            /\ ret.target_distance_error2 >= 0
            /\ ret.target_distance_error2 = 0 <=> SamePlace(a, b)

\* Two positions with the same x, 0.2 m apart.
C16_Witness ==
    /\ Measuring
    /\ metric_args.target = Position(<<4000, 400>>)
    /\ metric_args.final_position = Position(<<4000, 0>>)
    /\ ret.target_distance_error2 = 400 * 400

Categorized == call \in {"calculate_accuracy_metrics", "categorize_errors"}

\* C17: the distance category is the first of on_target (0.20 m), close
\* (0.50 m), moderate (1.00 m), large whose threshold is at least the distance
\* error, the direction category the first of on_line (3 degrees), slight (8),
\* moderate (15), large whose threshold is at least the direction error: an
\* error on a threshold gets the smaller category, every error gets one
\* category, and large takes whatever the others do not.
C17_Categorisation ==
    Categorized =>
        /\ ret.distance_category =
               IF ret.target_distance_error2 <= 400 * 400 THEN "on_target"
               ELSE IF ret.target_distance_error2 <= 1000 * 1000 THEN "close"
               ELSE IF ret.target_distance_error2 <= 2000 * 2000 THEN "moderate"
               ELSE "large"
        /\ ret.direction_category =
               IF ret.path_direction_error <= 3000000 THEN "on_line"
               ELSE IF ret.path_direction_error <= 8000000 THEN "slight"
               ELSE IF ret.path_direction_error <= 15000000 THEN "moderate"
               ELSE "large"

\* A distance error of exactly 0.20 m with a direction error of exactly
\* 3 degrees.
C17_Witness ==
    /\ call = "categorize_errors"
    /\ errors.target_distance_error2 = 400 * 400
    /\ errors.path_direction_error = 3000000
    /\ ret.distance_category = "on_target"
    /\ ret.direction_category = "on_line"

\* The categories from the smallest error to the largest.
DistanceOrder == <<"on_target", "close", "moderate", "large">>

DirectionOrder == <<"on_line", "slight", "moderate", "large">>

RankIn(order, category) == CHOOSE i \in DOMAIN order : order[i] = category

\* C18: the category of a distance error d1 is never later in on_target, close,
\* moderate, large than the category of a distance error d2 >= d1, and likewise
\* for direction errors in on_line, slight, moderate, large.
C18_CategoryMonotone ==
    call = "categorize_errors" =>
        /\ \A d1 \in DistanceErrors :
               d1 * d1 <= ret.target_distance_error2 =>
                   RankIn(DistanceOrder, distance_category_of(d1 * d1))
                       <= RankIn(DistanceOrder, ret.distance_category)
        /\ \A e1 \in DirectionErrors :
               e1 <= ret.path_direction_error =>
                   RankIn(DirectionOrder, direction_category_of(e1))
                       <= RankIn(DirectionOrder, ret.direction_category)

\* Errors just past the close and slight thresholds: they are moderate, the
\* errors on the thresholds are close and slight.
C18_Witness ==
    /\ call = "categorize_errors"
    /\ errors.target_distance_error2 = 1001 * 1001
    /\ errors.path_direction_error = 8000001
    /\ ret.distance_category = "moderate"
    /\ ret.direction_category = "moderate"
    /\ distance_category_of(1000 * 1000) = "close"
    /\ direction_category_of(8000000) = "slight"

\* C19: whatever the two categories, error_magnitude is 'minor' exactly when
\* the distance category is on_target and the direction category is on_line
\* or slight.
C19_CompositeMinor ==
    Categorized =>
        (ret.error_magnitude = "minor" <=>
            /\ ret.distance_category = "on_target"
            /\ ret.direction_category \in {"on_line", "slight"})

\* Target and final position 0.2 m apart and 5.71 degrees apart about the
\* button: on_target and slight.
C19_Witness ==
    /\ Measuring
    /\ metric_args.target = Position(<<4000, 0>>)
    /\ metric_args.final_position = Position(<<4000, 400>>)
    /\ ret.distance_category = "on_target"
    /\ ret.direction_category = "slight"
    /\ ret.error_magnitude = "minor"

\* The pairs of categories the second test of the composite accepts.
WithinModerate ==
    /\ ret.distance_category \in {"on_target", "close"}
    /\ ret.direction_category \in {"on_line", "slight", "moderate"}

\* C20 as stated: error_magnitude is 'moderate' exactly when the distance
\* category is on_target or close and the direction category is on_line,
\* slight or moderate.
C20_Original ==
    Categorized => (ret.error_magnitude = "moderate" <=> WithinModerate)

\* C20: error_magnitude is 'moderate' exactly when the distance category is
\* on_target or close, the direction category is on_line, slight or moderate,
\* and the pair is not one of the two 'minor' pairs (on_target with on_line or
\* slight).
C20_CompositeModerate ==
    Categorized =>
        (ret.error_magnitude = "moderate" <=>
            /\ WithinModerate
            /\ ~(/\ ret.distance_category = "on_target"
                 /\ ret.direction_category \in {"on_line", "slight"}))

\* Target and final position 0.2 m apart and 11.31 degrees apart about the
\* button: on_target and moderate.
C20_Witness ==
    /\ Measuring
    /\ metric_args.target = Position(<<2000, 0>>)
    /\ metric_args.final_position = Position(<<2000, 400>>)
    /\ ret.distance_category = "on_target"
    /\ ret.direction_category = "moderate"
    /\ ret.error_magnitude = "moderate"

\* C21: a distance category of moderate or large gives 'major' whatever the
\* direction category (target (0,0) and final position (1.2,0) are large and
\* major), and a direction category of large gives 'major' even when the
\* distance category is on_target.
C21_CompositeMajor ==
    Categorized =>
        /\ ret.distance_category \in {"moderate", "large"} => ret.error_magnitude = "major"
        /\ ret.direction_category = "large" => ret.error_magnitude = "major"
        /\ (/\ Measuring
            /\ metric_args.target = Position(<<0, 0>>)
            /\ metric_args.final_position = Position(<<2400, 0>>))
           => ret.distance_category = "large" /\ ret.error_magnitude = "major"

\* Target and final position 0.1 m apart on either side of the negative x
\* axis at 0.3 m: on_target, 18.43 degrees apart about the button, major.
C21_Witness ==
    /\ Measuring
    /\ metric_args.target = Position(<<-600, 0>>)
    /\ metric_args.final_position = Position(<<-600, 200>>)
    /\ ret.distance_category = "on_target"
    /\ ret.direction_category = "large"
    /\ ret.error_magnitude = "major"

Processing(type) == call = "process_shot_accuracy" /\ shot.type = type

\* process_shot_accuracy returned a record.
Recorded == call = "process_shot_accuracy" /\ "shot_id" \in DOMAIN ret

InHouse(p) == p.x * p.x + p.y * p.y <= 3658 * 3658

InCorridor(p) == p.y \in 3000..12000

\* C27: a Draw whose thrown object is within 1.829 m of the button, a Guard
\* whose thrown object has y in [1.5, 6.0] m and a Hit and Roll with a thrown
\* object are their own target: process_shot_accuracy returns a record with
\* both errors 0, on_target, on_line and minor, wherever the object lies.
C27_SelfTargetedZero ==
    (/\ Thrown # None
     /\ \/ Processing("Draw") /\ InHouse(Thrown)
        \/ Processing("Guard") /\ InCorridor(Thrown)
        \/ Processing("Hit and Roll"))
    => /\ Recorded
       /\ ret.target_x = ret.final_position_x
       /\ ret.target_y = ret.final_position_y
       /\ ret.final_position_x = Thrown.x
       /\ ret.final_position_y = Thrown.y
       /\ ret.target_distance_error2 = 0
       /\ ret.path_direction_error = 0
       /\ ret.distance_category = "on_target"
       /\ ret.direction_category = "on_line"
       /\ ret.error_magnitude = "minor"

\* A Hit and Roll whose thrown object came to rest beyond the house and short
\* of the guard corridor.
C27_Witness ==
    /\ Processing("Hit and Roll")
    /\ Thrown # None
    /\ Thrown.x = 3660
    /\ Thrown.y = 0
    /\ Recorded
    /\ ret.error_magnitude = "minor"

\* C28: a record returned for a Draw or a Guard has distance category
\* on_target or large, never close or moderate, and error_magnitude minor or
\* major, never moderate.
C28_DrawGuardExtremes ==
    Recorded /\ shot.type \in {"Draw", "Guard"} =>
        /\ ret.distance_category \in {"on_target", "large"}
        /\ ret.error_magnitude \in {"minor", "major"}

\* A Guard whose thrown object stopped 1 mm short of the corridor: the target
\* is the default guard point, 2.02 m away.
C28_Witness ==
    /\ Recorded
    /\ shot.type = "Guard"
    /\ ret.final_position_x = 600
    /\ ret.final_position_y = 2998
    /\ ret.target_x = 0
    /\ ret.target_y = 7000
    /\ ret.distance_category = "large"
    /\ ret.error_magnitude = "major"

\* C29: a record returned for a Draw has target confidence 0.6 or 0.8, for a
\* Guard 0.5 or 0.8, for a Hit and Roll 0.7, so at least 0.5; a shot of these
\* types whose inferred target has the confidence 0.2, 0.3 or 0.4 of the case
\* without a thrown object gets no record.
C29_NoFallbackInRecords ==
    /\ Recorded /\ shot.type = "Draw" => ret.target_confidence \in {6, 8}
    /\ Recorded /\ shot.type = "Guard" => ret.target_confidence \in {5, 8}
    /\ Recorded /\ shot.type = "Hit and Roll" => ret.target_confidence = 7
    /\ (/\ call = "process_shot_accuracy"
        /\ shot.type \in {"Draw", "Guard", "Hit and Roll"}
        /\ infer_target(shot, pre_shot_stones, post_shot_stones).confidence \in {2, 3, 4})
       => ret = None

\* A Guard with positions after the shot, none of them new for the acting
\* side: infer_target gives the default guard point with 0.3, and there is no
\* record.
C29_Witness ==
    /\ Processing("Guard")
    /\ post_shot_stones # <<>>
    /\ Thrown = None
    /\ infer_target(shot, pre_shot_stones, post_shot_stones) = Target(0, 7000, 3)
    /\ ret = None

(* ------------------------------- database ------------------------------- *)

Range(rows) == {rows[i] : i \in DOMAIN rows}

\* process_shot_accuracy(shot_id) found the row and read its snapshots.
Snapshotted == call = "process_shot_accuracy_by_id" /\ "number" \in DOMAIN shot

\* The positions recorded for the shots of the given end and number.
RecordedFor(end_id, number) ==
    {[color |-> sp.color, x |-> sp.x, y |-> sp.y] :
        sp \in {r \in Range(stone_positions) :
                   \E s \in Range(shots) :
                       s.id = r.shot_id /\ s.end_id = end_id /\ s.number = number}}

\* C26: when the shot numbered n of an end is processed, the snapshot before
\* is the set of positions recorded for the shot numbered n-1 of the same end
\* and the snapshot after is the set recorded for the shot itself; for n = 1
\* the snapshot before is empty, no stone is reported removed and the target
\* of a Take-out does not get confidence 0.9; an empty snapshot after yields
\* no result.
C26_SnapshotSelection ==
    Snapshotted =>
        /\ Range(pre_shot_stones) = RecordedFor(shot.end_id, shot.number - 1)
        /\ Range(post_shot_stones) =
               {[color |-> sp.color, x |-> sp.x, y |-> sp.y] :
                   sp \in {r \in Range(stone_positions) : r.shot_id = shot.id}}
        /\ shot.number = 1 =>
               /\ pre_shot_stones = <<>>
               /\ _find_removed_stones(pre_shot_stones, post_shot_stones) = <<>>
               /\ infer_target(shot, pre_shot_stones, post_shot_stones).confidence # 9
        /\ post_shot_stones = <<>> => ret = None

\* The second shot of an end is processed to a result, with a stone recorded
\* for the first shot of the end.
C26_Witness ==
    /\ Snapshotted
    /\ shot.number = 2
    /\ pre_shot_stones # <<>>
    /\ "shot_id" \in DOMAIN ret

\* No thrown stone is found for the shot row in the snapshots the database
\* holds for it.
NoThrownStone(s) == _find_thrown_stone(s, PreSnapshot(s), PositionsOf(s.id)) = None

BatchDone ==
    call \in {"populate_enhanced_accuracy_data", "calculate_enhanced_accuracy_metrics"}

\* C23: for a shot whose thrown stone is not found, process_shot_accuracy
\* returns None although infer_target returned a target, and the table
\* shot_accuracy_metrics holds no row for the shot, whichever batch
\* operations have run.
C23_AbsentResult ==
    /\ Snapshotted /\ NoThrownStone(shot) =>
           /\ ret = None
           /\ "confidence" \in DOMAIN infer_target(shot, pre_shot_stones, post_shot_stones)
    /\ \A s \in Range(shots) :
           NoThrownStone(s) =>
               \A row \in Range(shot_accuracy_metrics) : row.shot_id # s.id

\* A batch run has written a row for one shot and none for another shot,
\* which has a position recorded and no thrown stone.
C23_Witness ==
    /\ BatchDone
    /\ shot_accuracy_metrics # <<>>
    /\ \E s \in Range(shots) : NoThrownStone(s) /\ PositionsOf(s.id) # <<>>

\* The table shot_accuracy_metrics holds at most one row per shot identifier.
KeyedByShot ==
    \A i, j \in DOMAIN shot_accuracy_metrics :
        shot_accuracy_metrics[i].shot_id = shot_accuracy_metrics[j].shot_id => i = j

\* C24: every run of populate_enhanced_accuracy_data or of
\* calculate_enhanced_accuracy_metrics, the first or a later one over the
\* same shots, leaves at most one row per shot identifier in a table
\* shot_accuracy_metrics that held at most one.
C24_OneRecordPerShot == [][BatchDone' /\ KeyedByShot => KeyedByShot']_vars

\* C25: every row of shot_accuracy_metrics, whichever operation wrote it, has
\* its distance category among on_target, close, moderate, large, its
\* direction category among on_line, slight, moderate, large and its error
\* magnitude among minor, moderate, major.
C25_CategoryEnumerations ==
    \A row \in Range(shot_accuracy_metrics) :
        /\ row.distance_category \in {"on_target", "close", "moderate", "large"}
        /\ row.direction_category \in {"on_line", "slight", "moderate", "large"}
        /\ row.error_magnitude \in {"minor", "moderate", "major"}

\* The shots a batch run is to write a row for, in id order: those with a
\* recorded position and a thrown stone whose processing and insertion succeed.
Writable ==
    SelectSeq(shots,
              LAMBDA s : /\ PositionsOf(s.id) # <<>>
                         /\ ~NoThrownStone(s)
                         /\ s.id \notin failures.processing \cup failures.inserting)

\* The rows at the end of the table that were not in it before the step.
Appended(before, after) == SubSeq(after, Len(before) + 1, Len(after))

\* C30: a run of populate_enhanced_accuracy_data or of
\* calculate_enhanced_accuracy_metrics ends without exception whichever shot
\* fails in processing or insertion, writes no row for the failing shot,
\* writes the rows of all the other shots in shot-id order, those after the
\* failing shot included, and ends with processed_count equal to the number
\* of rows it wrote.
C30_BatchIsolation ==
    [][BatchDone' =>
          LET written == Appended(shot_accuracy_metrics, shot_accuracy_metrics')
          IN  /\ ~IsRaised(ret')
              /\ [k \in DOMAIN written |-> written[k].shot_id]
                     = [k \in DOMAIN Writable |-> Writable[k].id]
              /\ ret'.processed_count = Len(written)]_vars

====
